---- MODULE Spec2Model ----
(***************************************************************************)
(* Model of the Electrum wallet sync of bdk                                *)
(* (src/src/blockchain/electrum.rs: ElectrumBlockchain::wallet_setup and   *)
(* TxCache) and of the Esplora fee-rate selection                          *)
(* (src/src/blockchain/esplora/mod.rs: into_fee_rate).                     *)
(*                                                                         *)
(* One action models one pass of the `loop` of wallet_setup (one match arm *)
(* of `request`), with the answers of the Electrum server, of the wallet   *)
(* database and of script_sync's satisfy drawn from small sets.            *)
(***************************************************************************)
EXTENDS Integers, Sequences, FiniteSets, TLC

\* ------------------------------------------------------------------ bounds
\* Transaction ids are 1..MaxTx.
MaxTx == 3
\* Block heights are 1..MaxHeight.
MaxHeight == 2
\* stop_gap (chunk_size) ranges over 0..MaxChunk.
MaxChunk == 2
\* The Script request starts with 1..MaxScripts pending scripts.
MaxScripts == 2
\* A Conftime or Tx request starts with at most MaxPending pending txids.
MaxPending == 2
\* A script's history reply holds at most MaxHist entries.
MaxHist == 1
\* The wallet database holds raw transactions among 1..MaxStored.
MaxStored == 1
\* Fee estimates: targets are 0..MaxTarget, a table holds at most MaxKeys keys.
MaxTarget == 4
MaxKeys == 4

TxIds == 1..MaxTx
Heights == 1..MaxHeight
\* Heights an Electrum history entry can carry: <= 0 is unconfirmed.
ReportedHeights == (0 - 1)..MaxHeight

\* ------------------------------------------------------------- sequences
Min(a, b) == IF a < b THEN a ELSE b

Range(s) == {s[i] : i \in 1..Len(s)}

\* Iterator::take(n): the first n items, fewer when the sequence is shorter.
TakeOneMore(s, n) == SubSeq(s, 1, Min(n + 1, Len(s)))
Take(s, n) == SubSeq(s, 1, Min(n, Len(s)))

Drop(s, n) == SubSeq(s, Min(n, Len(s)) + 1, Len(s))

RECURSIVE Flatten(_)
Flatten(ss) == IF ss = <<>> THEN <<>> ELSE Head(ss) \o Flatten(Tail(ss))

\* The sequences without repetition over S of length at most n.
DistinctSeqs(S, n) ==
    UNION {{s \in [1..k -> S] : \A i, j \in 1..k : i # j => s[i] # s[j]} : k \in 0..n}

\* The orders in which a HashSet's iterator can yield the set S.
Orders(S) == {s \in [1..Cardinality(S) -> S] : Range(s) = S}

\* A HashMap as a function on its key set.
Empty == <<>>
Insert(m, k, v) == [x \in (DOMAIN m) \cup {k} |-> IF x = k THEN v ELSE m[x]]

\* ------------------------------------------------------------ transactions
\* OutPoint::null() and is_null.
NullOutPoint == [txid |-> 0, vout |-> 0]
IsNull(op) == op = NullOutPoint

\* The transactions of the chain: transaction 1 is a coinbase, transaction
\* i > 1 spends output 0 of transaction 1 and output 1 of transaction i - 1
\* (so transaction 2 references transaction 1 twice).
TxBody(i) ==
    IF i = 1
    THEN [input |-> <<[previous_output |-> NullOutPoint]>>, output |-> <<10, 11>>]
    ELSE [input |-> <<[previous_output |-> [txid |-> 1, vout |-> 0]],
                      [previous_output |-> [txid |-> i - 1, vout |-> 1]]>>,
          output |-> <<10 * i, 10 * i + 1>>]

Bodies == {TxBody(i) : i \in TxIds}

\* Transaction::txid(): the id computed from the transaction's content.
Txid(tx) == CHOOSE i \in TxIds : TxBody(i) = tx

\* BlockHeader.time of the block at a height.
HeaderTime(h) == 100 + h
HeaderTimes == {HeaderTime(h) : h \in Heights}

\* Option<T>: None is the empty sequence, Some(v) the sequence holding v.
None == <<>>
Some(v) == <<v>>
IsSome(o) == o # <<>>
Unwrap(o) == o[1]

\* --------------------------------------------------- Request::Script arm
\* A history entry of batch_script_get_history: GetHistoryRes {tx_hash, height}.
HistEntries == [tx_hash : TxIds, height : ReportedHeights]
Histories == UNION {[1..k -> HistEntries] : k \in 0..MaxHist}

\* The closure applied to one history entry: the HeightMap after it.
RecordHeightAlways(hm, e) == Insert(hm, e.tx_hash, e.height)
RecordHeight(hm, e) ==
    IF e.height <= 0 THEN hm ELSE Insert(hm, e.tx_hash, e.height)

\* The pair the closure returns for one history entry.
HistoryPair(e) ==
    [txid |-> e.tx_hash, height |-> IF e.height <= 0 THEN None ELSE Some(e.height)]

\* txid_to_height after the entries of a whole reply, taken in reply order.
RECURSIVE HeightsAfter(_, _)
HeightsAfter(hm, entries) ==
    IF entries = <<>> THEN hm
    ELSE HeightsAfter(RecordHeight(hm, Head(entries)), Tail(entries))

\* txids_per_script: one list of pairs per history list of the reply.
TxidsPerScript(reply) ==
    [i \in 1..Len(reply) |-> [j \in 1..Len(reply[i]) |-> HistoryPair(reply[i][j])]]

\* ------------------------------------------------- Request::Conftime arm
\* needs_block_height: the heights of the pending txids, in pending order,
\* that txid_to_height knows and block_times does not, collected into a
\* HashSet until it holds chunk_size heights.
RECURSIVE CollectHeightsUnfiltered(_, _, _, _, _)
CollectHeightsUnfiltered(pending, hm, bt, c, acc) ==
    IF pending = <<>> \/ Cardinality(acc) >= c THEN acc
    ELSE LET t == Head(pending) IN
         IF t \in DOMAIN hm
         THEN CollectHeightsUnfiltered(Tail(pending), hm, bt, c, acc \cup {hm[t]})
         ELSE CollectHeightsUnfiltered(Tail(pending), hm, bt, c, acc)
RECURSIVE CollectHeights(_, _, _, _, _)
CollectHeights(pending, hm, bt, c, acc) ==
    IF pending = <<>> \/ Cardinality(acc) >= c THEN acc
    ELSE LET t == Head(pending) IN
         IF t \in DOMAIN hm /\ hm[t] \notin DOMAIN bt
         THEN CollectHeights(Tail(pending), hm, bt, c, acc \cup {hm[t]})
         ELSE CollectHeights(Tail(pending), hm, bt, c, acc)

NeedsBlockHeightUnfiltered(pending, hm, bt, c) ==
    CollectHeightsUnfiltered(pending, hm, bt, c, {})
NeedsBlockHeightUncapped(pending, hm, bt, c) ==
    CollectHeights(pending, hm, bt, Len(pending) + 1, {})
NeedsBlockHeight(pending, hm, bt, c) == CollectHeights(pending, hm, bt, c, {})

\* The number of pending txids the needs_block_height iterator pulled out of
\* conftime_req.request() before the while loop ended.
RECURSIVE ScannedForHeights(_, _, _, _, _)
ScannedForHeights(pending, hm, bt, c, acc) ==
    IF pending = <<>> \/ Cardinality(acc) >= c THEN 0
    ELSE LET t == Head(pending) IN
         1 + ScannedForHeights(Tail(pending), hm, bt, c,
                IF t \in DOMAIN hm /\ hm[t] \notin DOMAIN bt
                THEN acc \cup {hm[t]} ELSE acc)

\* The for loop over needs_block_height zipped with the headers received.
RECURSIVE InsertTimes(_, _, _)
InsertTimes(bt, heights, times) ==
    IF heights = <<>> \/ times = <<>> THEN bt
    ELSE InsertTimes(Insert(bt, Head(heights), Head(times)), Tail(heights), Tail(times))

\* The closure of `conftimes` for one txid: Err (electrum_goof) when the
\* txid has a height without a block time, else Ok(Option<BlockTime>).
ConfirmationTimeOrNone(hm, bt, txid) ==
    IF txid \notin DOMAIN hm \/ hm[txid] \notin DOMAIN bt
    THEN [err |-> FALSE, val |-> None]
    ELSE [err |-> FALSE,
          val |-> Some([height |-> hm[txid], timestamp |-> bt[hm[txid]]])]
ConfirmationTime(hm, bt, txid) ==
    IF txid \notin DOMAIN hm THEN [err |-> FALSE, val |-> None]
    ELSE IF hm[txid] \notin DOMAIN bt THEN [err |-> TRUE, val |-> None]
    ELSE [err |-> FALSE,
          val |-> Some([height |-> hm[txid], timestamp |-> bt[hm[txid]]])]

\* conftimes: collect::<Result<_, Error>> over the first chunk_size txids.
ConftimesAllPending(pending, hm, bt, c) ==
    LET res == [i \in 1..Len(pending) |-> ConfirmationTime(hm, bt, pending[i])]
    IN  IF \E i \in 1..Len(res) : res[i].err
        THEN [err |-> TRUE, val |-> <<>>]
        ELSE [err |-> FALSE, val |-> [i \in 1..Len(res) |-> res[i].val]]
Conftimes(pending, hm, bt, c) ==
    LET drawn == Take(pending, c)
        res == [i \in 1..Len(drawn) |-> ConfirmationTime(hm, bt, drawn[i])]
    IN  IF \E i \in 1..Len(res) : res[i].err
        THEN [err |-> TRUE, val |-> <<>>]
        ELSE [err |-> FALSE, val |-> [i \in 1..Len(res) |-> res[i].val]]

\* ----------------------------------------------------------------- TxCache
\* The wallet database as TxCache sees it: raw_txs are the txids whose raw
\* transaction get_raw_tx returns, committed the batches commit_batch applied.
GetRawTx(db, txid) == IF txid \in db.raw_txs THEN Some(TxBody(txid)) ELSE None

\* The for loop of save_txs over the txids, from position i on. fail_at is the
\* position whose get_raw_tx lookup returns Err (0: no lookup fails).
\* lookups are the txids looked up in the database, in order.
RECURSIVE PartitionNoCacheCheck(_, _, _, _, _, _, _)
PartitionNoCacheCheck(cache, txids, db, fail_at, i, need_fetch, lookups) ==
    IF i > Len(txids)
    THEN [cache |-> cache, need_fetch |-> need_fetch, lookups |-> lookups, err |-> FALSE]
    ELSE LET txid == txids[i] IN
         IF i = fail_at
         THEN [cache |-> cache, need_fetch |-> need_fetch,
               lookups |-> Append(lookups, txid), err |-> TRUE]
         ELSE IF IsSome(GetRawTx(db, txid))
         THEN PartitionNoCacheCheck(Insert(cache, txid, Unwrap(GetRawTx(db, txid))),
                  txids, db, fail_at, i + 1, need_fetch, Append(lookups, txid))
         ELSE PartitionNoCacheCheck(cache, txids, db, fail_at, i + 1,
                  Append(need_fetch, txid), Append(lookups, txid))
RECURSIVE PartitionNoStore(_, _, _, _, _, _, _)
PartitionNoStore(cache, txids, db, fail_at, i, need_fetch, lookups) ==
    IF i > Len(txids)
    THEN [cache |-> cache, need_fetch |-> need_fetch, lookups |-> lookups, err |-> FALSE]
    ELSE LET txid == txids[i] IN
         IF txid \in DOMAIN cache
         THEN PartitionNoStore(cache, txids, db, fail_at, i + 1, need_fetch, lookups)
         ELSE PartitionNoStore(cache, txids, db, fail_at, i + 1,
                  Append(need_fetch, txid), lookups)
RECURSIVE Partition(_, _, _, _, _, _, _)
Partition(cache, txids, db, fail_at, i, need_fetch, lookups) ==
    IF i > Len(txids)
    THEN [cache |-> cache, need_fetch |-> need_fetch, lookups |-> lookups, err |-> FALSE]
    ELSE LET txid == txids[i] IN
         IF txid \in DOMAIN cache
         THEN Partition(cache, txids, db, fail_at, i + 1, need_fetch, lookups)
         ELSE IF i = fail_at
         THEN [cache |-> cache, need_fetch |-> need_fetch,
               lookups |-> Append(lookups, txid), err |-> TRUE]
         ELSE IF IsSome(GetRawTx(db, txid))
         THEN Partition(Insert(cache, txid, Unwrap(GetRawTx(db, txid))),
                  txids, db, fail_at, i + 1, need_fetch, Append(lookups, txid))
         ELSE Partition(cache, txids, db, fail_at, i + 1,
                  Append(need_fetch, txid), Append(lookups, txid))

\* save_txs up to `if !need_fetch.is_empty()`.
SaveTxsPartitionNoCacheCheck(cache, txids, db, fail_at) ==
    PartitionNoCacheCheck(cache, txids, db, fail_at, 1, <<>>, <<>>)
SaveTxsPartitionNoStore(cache, txids, db, fail_at) ==
    PartitionNoStore(cache, txids, db, fail_at, 1, <<>>, <<>>)
SaveTxsPartition(cache, txids, db, fail_at) ==
    Partition(cache, txids, db, fail_at, 1, <<>>, <<>>)

\* The for loop over the transactions received zipped with need_fetch.
\* debug_assert_eq! panics on the first transaction whose txid is not the
\* one requested when the build has debug assertions, and is compiled out
\* otherwise; the entry is inserted under the transaction's own txid.
RECURSIVE InsertFetched(_, _, _, _)
InsertFetched(cache, txs, need_fetch, debug) ==
    IF txs = <<>> \/ need_fetch = <<>> THEN [cache |-> cache, panic |-> FALSE]
    ELSE IF debug /\ Txid(Head(txs)) # Head(need_fetch)
    THEN [cache |-> cache, panic |-> TRUE]
    ELSE InsertFetched(Insert(cache, Txid(Head(txs)), Head(txs)),
                       Tail(txs), Tail(need_fetch), debug)

\* What batch_transaction_get can answer to a request: a transport error, the
\* transactions requested, fewer of them, or a list with another
\* transaction at one position.
HonestReply(req) == [i \in 1..Len(req) |-> TxBody(req[i])]
TxReplies(req) ==
    {[err |-> TRUE, txs |-> <<>>]}
    \cup {[err |-> FALSE, txs |-> Take(HonestReply(req), k)] : k \in 0..Len(req)}
    \cup {[err |-> FALSE, txs |-> [HonestReply(req) EXCEPT ![i] = b]] :
            i \in 1..Len(req), b \in Bodies}

\* TxCache::save_txs: the partition p it computed, then the fetch. result is
\* "ok", "Database" (get_raw_tx failed), "Electrum" (the batch call failed)
\* or "panic"; fetches are the batches sent to batch_transaction_get; db is
\* the database after the call (save_txs holds it by shared reference).
SaveTxsFetchWriteThrough(p, db, reply, debug) ==
    LET ins == InsertFetched(p.cache, reply.txs, p.need_fetch, debug)
        fetched == ~p.err /\ p.need_fetch # <<>> /\ ~reply.err
        after == IF fetched THEN ins.cache ELSE p.cache
    IN  [cache |-> after,
         db |-> [db EXCEPT !.raw_txs = @ \cup DOMAIN after],
         need_fetch |-> p.need_fetch, lookups |-> p.lookups,
         fetches |-> IF p.err \/ p.need_fetch = <<>> THEN <<>> ELSE <<p.need_fetch>>,
         reply |-> IF fetched THEN reply.txs ELSE <<>>,
         result |-> IF p.err THEN "Database"
                    ELSE IF p.need_fetch = <<>> THEN "ok"
                    ELSE IF reply.err THEN "Electrum"
                    ELSE IF ins.panic THEN "panic" ELSE "ok"]
SaveTxsFetchAlways(p, db, reply, debug) ==
    LET base == [cache |-> p.cache, db |-> db, need_fetch |-> p.need_fetch,
                 lookups |-> p.lookups, fetches |-> <<>>, reply |-> <<>>]
    IN  IF p.err THEN base @@ [result |-> "Database"]
        ELSE IF reply.err
        THEN [base EXCEPT !.fetches = <<p.need_fetch>>] @@ [result |-> "Electrum"]
        ELSE LET ins == InsertFetched(p.cache, reply.txs, p.need_fetch, debug) IN
             [base EXCEPT !.cache = ins.cache, !.fetches = <<p.need_fetch>>,
                          !.reply = reply.txs]
             @@ [result |-> IF ins.panic THEN "panic" ELSE "ok"]
SaveTxsFetch(p, db, reply, debug) ==
    LET base == [cache |-> p.cache, db |-> db, need_fetch |-> p.need_fetch,
                 lookups |-> p.lookups, fetches |-> <<>>, reply |-> <<>>]
    IN  IF p.err THEN base @@ [result |-> "Database"]
        ELSE IF p.need_fetch = <<>> THEN base @@ [result |-> "ok"]
        ELSE IF reply.err
        THEN [base EXCEPT !.fetches = <<p.need_fetch>>] @@ [result |-> "Electrum"]
        ELSE LET ins == InsertFetched(p.cache, reply.txs, p.need_fetch, debug) IN
             [base EXCEPT !.cache = ins.cache, !.fetches = <<p.need_fetch>>,
                          !.reply = reply.txs]
             @@ [result |-> IF ins.panic THEN "panic" ELSE "ok"]

\* TxCache::get.
Get(cache, txid) == IF txid \in DOMAIN cache THEN Some(cache[txid]) ELSE None

\* --------------------------------------------------------- Request::Tx arm
\* full_transactions: Err (electrum_goof) when a drawn txid is not cached.
FullTransactionsSkipMissing(cache, needs_full) ==
    LET found == SelectSeq(needs_full, LAMBDA t : IsSome(Get(cache, t))) IN
    [err |-> FALSE, val |-> [i \in 1..Len(found) |-> Unwrap(Get(cache, found[i]))]]
FullTransactions(cache, needs_full) ==
    IF \E i \in 1..Len(needs_full) : ~IsSome(Get(cache, needs_full[i]))
    THEN [err |-> TRUE, val |-> <<>>]
    ELSE [err |-> FALSE,
          val |-> [i \in 1..Len(needs_full) |-> Unwrap(Get(cache, needs_full[i]))]]

\* The previous txids of a transaction's inputs that are not null.
RECURSIVE PrevTxids(_)
PrevTxids(inputs) ==
    IF inputs = <<>> THEN <<>>
    ELSE IF IsNull(Head(inputs).previous_output) THEN PrevTxids(Tail(inputs))
    ELSE <<Head(inputs).previous_output.txid>> \o PrevTxids(Tail(inputs))

\* input_txs: the flat_map over full_transactions.
InputTxs(full_transactions) ==
    Flatten([i \in 1..Len(full_transactions) |-> PrevTxids(full_transactions[i].input)])

\* The closure computing one input's previous output.
PrevOutputFirst(cache, input) ==
    IF IsNull(input.previous_output) THEN [err |-> FALSE, val |-> None]
    ELSE LET prev_tx == Get(cache, input.previous_output.txid)
         IN  IF ~IsSome(prev_tx) THEN [err |-> TRUE, val |-> None]
             ELSE IF Unwrap(prev_tx).output = <<>> THEN [err |-> TRUE, val |-> None]
             ELSE [err |-> FALSE, val |-> Some(Unwrap(prev_tx).output[1])]
PrevOutput(cache, input) ==
    IF IsNull(input.previous_output) THEN [err |-> FALSE, val |-> None]
    ELSE LET prev_tx == Get(cache, input.previous_output.txid)
             vout == input.previous_output.vout
         IN  IF ~IsSome(prev_tx) THEN [err |-> TRUE, val |-> None]
             ELSE IF vout + 1 > Len(Unwrap(prev_tx).output) THEN [err |-> TRUE, val |-> None]
             ELSE [err |-> FALSE, val |-> Some(Unwrap(prev_tx).output[vout + 1])]

\* full_details: one (prev_outputs, tx) pair per full transaction.
FullDetails(cache, full_transactions) ==
    LET res == [i \in 1..Len(full_transactions) |->
                  [j \in 1..Len(full_transactions[i].input) |->
                     PrevOutput(cache, full_transactions[i].input[j])]]
    IN  IF \E i \in 1..Len(res) : \E j \in 1..Len(res[i]) : res[i][j].err
        THEN [err |-> TRUE, val |-> <<>>]
        ELSE [err |-> FALSE,
              val |-> [i \in 1..Len(res) |->
                         [prev_outputs |-> [j \in 1..Len(res[i]) |-> res[i][j].val],
                          tx |-> full_transactions[i]]]]

\* ------------------------------------------------------------ script_sync
\* Request: the phase, the pending work items request() yields, and for
\* Finish the BatchUpdate it carries (0 otherwise).
Req(phase, pending, batch) == [phase |-> phase, pending |-> pending, batch |-> batch]

\* The BatchUpdates a session can end with.
BatchUpdates == {1, 2}

\* The work sequences a Conftime or Tx request can start with.
PendingTxids == DistinctSeqs(TxIds, MaxPending)

\* script_sync::start: a Script request over the wallet's scripts.
StartRequests == {Req("Script", [i \in 1..n |-> i], 0) : n \in 1..MaxScripts}

\* satisfy, when it returns Ok: the n answers resolve the first n pending
\* items; the same phase while work remains, else the next phase.
Satisfy(req, n) ==
    LET rest == Drop(req.pending, n) IN
    IF rest # <<>> THEN {Req(req.phase, rest, 0)}
    ELSE IF req.phase = "Script" THEN {Req("Conftime", p, 0) : p \in PendingTxids}
    ELSE IF req.phase = "Conftime" THEN {Req("Tx", p, 0) : p \in PendingTxids}
    ELSE {Req("Finish", <<>>, b) : b \in BatchUpdates}

\* Database::commit_batch, when it returns Ok.
CommitBatch(db, batch_update) ==
    [db EXCEPT !.committed = Append(@, batch_update)]

\* ------------------------------------------------------------------ state
VARIABLES
    pc,              \* "start", "loop", "done", "error" (Err returned), "panic"
    err,             \* the error returned: "none", "Electrum", "Database",
                     \* "Satisfy", "Goof" (electrum_goof)
    request,         \* wallet_setup's `request`
    chunk_size,      \* self.stop_gap
    debug,           \* whether the build has debug assertions
    txid_to_height,  \* wallet_setup's HashMap<Txid, u32>
    block_times,     \* wallet_setup's HashMap<u32, u32>
    cache,           \* tx_cache.cache
    db,              \* the wallet database
    db0,             \* the wallet database when wallet_setup was called
    commits,         \* the number of commit_batch calls
    last_db_op,      \* the last database method called
    iter,            \* what the last pass of the loop did
    fetched,         \* the txids sent to batch_transaction_get so far
    fee_target,      \* into_fee_rate's target
    fee_estimates,   \* into_fee_rate's estimates
    fee_result       \* None, or Some of the FeeRate returned

sync_vars == <<pc, err, request, chunk_size, debug, txid_to_height, block_times,
               cache, db, db0, commits, last_db_op, iter, fetched>>
fee_vars == <<fee_target, fee_estimates, fee_result>>
vars == <<pc, err, request, chunk_size, debug, txid_to_height, block_times,
          cache, db, db0, commits, last_db_op, iter, fetched,
          fee_target, fee_estimates, fee_result>>

\* The record of a pass of the loop: the phase handled, the items drawn
\* with take(chunk_size), the histories batch_script_get_history returned,
\* the answers given to satisfy, the pending txids the
\* height collection read, the heights sent to batch_block_header and the
\* header times received, the save_txs calls, the batched calls made on the
\* Electrum client in call order, how the pass ended, and the parity of the
\* number of passes run so far (two passes of the loop that do the same are
\* still two passes).
NoIter ==
    [phase |-> "none", drawn |-> <<>>, answers |-> <<>>, satisfied |-> FALSE,
     scanned |-> 0, header_req |-> <<>>, header_reply |-> <<>>, saves |-> <<>>,
     calls |-> <<>>, script_reply |-> <<>>, outcome |-> "none", turn |-> 0]

\* A batched call on the Electrum client: the method and the batch sent.
Call(method, args) == [method |-> method, args |-> args]

\* The txids that a sequence of batch_transaction_get calls sent.
Sent(calls) == UNION {Range(calls[i].args) : i \in 1..Len(calls)}

\* The batch_transaction_get calls of one save_txs call.
CallsOf(r) == [i \in 1..Len(r.fetches) |-> Call("batch_transaction_get", r.fetches[i])]

\* The record `it` of the pass now ending, with its outcome.
EndPass(it, satisfied, outcome) ==
    [it EXCEPT !.satisfied = satisfied, !.outcome = outcome, !.turn = 1 - iter.turn]

\* The record of one save_txs call.
SaveRecord(txids, cache_before, r) ==
    [txids |-> txids, cached_before |-> DOMAIN cache_before,
     cached_after |-> DOMAIN r.cache, lookups |-> r.lookups,
     fetches |-> r.fetches, reply |-> r.reply, result |-> r.result]

IdleFee == fee_target = 0 /\ fee_estimates = Empty /\ fee_result = None

Init ==
    /\ pc = "start"
    /\ err = "none"
    /\ request = Req("none", <<>>, 0)
    /\ chunk_size \in 0..MaxChunk
    /\ debug \in BOOLEAN
    /\ txid_to_height = Empty
    /\ block_times = Empty
    /\ cache = Empty
    /\ db \in {[raw_txs |-> r, committed |-> <<>>] : r \in SUBSET (1..MaxStored)}
    /\ db0 = db
    /\ commits = 0
    /\ last_db_op = "none"
    /\ iter = NoIter
    /\ fetched = {}
    /\ IdleFee

\* How a pass that failed leaves wallet_setup: `?` returns the error, a
\* failed debug assertion unwinds.
Fail(kind) ==
    /\ pc' = IF kind = "panic" THEN "panic" ELSE "error"
    /\ err' = IF kind = "panic" THEN "none" ELSE kind
    /\ request' = request

\* A pass that failed before satisfy, with its record.
FailPass(kind, it) ==
    /\ Fail(kind)
    /\ iter' = EndPass(it, FALSE, kind)

\* The end of a pass whose answers were computed: satisfy returns the next
\* request, or an error.
CallSatisfy(it) ==
    \/ /\ \E next \in Satisfy(request, Len(it.answers)) : request' = next
       /\ pc' = "loop"
       /\ err' = "none"
       /\ iter' = EndPass(it, TRUE, "ok")
    \/ /\ Fail("Satisfy")
       /\ iter' = EndPass(it, TRUE, "Satisfy")

\* `match request`: the arm for a phase runs when the request is of that
\* phase.
Matches(req, phase) == req.phase = phase

\* script_sync::start and the session's maps (lines 107-111).
Start ==
    /\ pc = "start"
    /\ \/ /\ \E r \in StartRequests : request' = r
          /\ pc' = "loop"
          /\ err' = "none"
       \/ Fail("Database")
    /\ last_db_op' = "read"
    /\ UNCHANGED <<chunk_size, debug, txid_to_height, block_times, cache, db, db0, fetched,
                   commits, iter, fee_vars>>

\* What batch_script_get_history can answer for n scripts: one history per
\* script.
ScriptReplies(n) == [1..n -> Histories]

\* The Request::Script arm (lines 119-143).
ScriptPass ==
    /\ pc = "loop"
    /\ Matches(request, "Script")
    /\ LET scripts == Take(request.pending, chunk_size)
           it == [NoIter EXCEPT !.phase = "Script", !.drawn = scripts,
                                !.calls = <<Call("batch_script_get_history", scripts)>>]
       IN  \/ /\ FailPass("Electrum", it)
              /\ UNCHANGED txid_to_height
           \/ \E reply \in ScriptReplies(Len(scripts)) :
                /\ txid_to_height' = HeightsAfter(txid_to_height, Flatten(reply))
                /\ CallSatisfy([it EXCEPT !.script_reply = reply,
                                          !.answers = TxidsPerScript(reply)])
    /\ UNCHANGED <<chunk_size, debug, block_times, cache, db, db0, fetched, commits,
                   last_db_op, fee_vars>>

\* What batch_block_header can answer for n heights: at most n headers, each
\* of some block.
HeaderReplies(n) == UNION {[1..k -> HeaderTimes] : k \in 0..n}

\* The Request::Conftime arm (lines 145-191).
ConftimePass ==
    /\ pc = "loop"
    /\ Matches(request, "Conftime")
    /\ LET needs_block_height ==
               NeedsBlockHeight(request.pending, txid_to_height, block_times, chunk_size)
           it0 == [NoIter EXCEPT
                     !.phase = "Conftime",
                     !.drawn = Take(request.pending, chunk_size),
                     !.scanned = ScannedForHeights(request.pending, txid_to_height,
                                                   block_times, chunk_size, {})]
       IN  \E order \in Orders(needs_block_height) :
             LET it == [it0 EXCEPT !.header_req = order,
                                   !.calls = <<Call("batch_block_header", order)>>] IN
             \/ /\ FailPass("Electrum", it)
                /\ UNCHANGED block_times
             \/ \E new_block_headers \in HeaderReplies(Len(order)) :
                  LET bt == InsertTimes(block_times, order, new_block_headers)
                      conftimes == Conftimes(request.pending, txid_to_height, bt, chunk_size)
                      it1 == [it EXCEPT !.header_reply = new_block_headers]
                  IN  /\ block_times' = bt
                      /\ IF conftimes.err
                         THEN FailPass("Goof", it1)
                         ELSE CallSatisfy([it1 EXCEPT !.answers = conftimes.val])
    /\ UNCHANGED <<chunk_size, debug, txid_to_height, cache, db, db0, fetched, commits,
                   last_db_op, fee_vars>>

\* The database method last called after a save_txs call.
AfterLookups(op, r) == IF r.lookups # <<>> THEN "get_raw_tx" ELSE op

\* The Request::Tx arm from the second save_txs on (lines 198-232).
TxPassInputs(needs_full, full_transactions, r1, it1) ==
    LET input_txs == InputTxs(full_transactions) IN
    \E fail_at \in 0..Len(input_txs) :
      LET p2 == SaveTxsPartition(r1.cache, input_txs, r1.db, fail_at) IN
      \E reply \in TxReplies(p2.need_fetch) :
        LET r2 == SaveTxsFetch(p2, r1.db, reply, debug)
            it2 == [it1 EXCEPT !.saves = Append(@, SaveRecord(input_txs, r1.cache, r2)),
                               !.calls = @ \o CallsOf(r2)]
            full_details == FullDetails(r2.cache, full_transactions)
        IN  /\ cache' = r2.cache
            /\ db' = r2.db
            /\ last_db_op' = AfterLookups(AfterLookups(last_db_op, r1), r2)
            /\ IF r2.result # "ok" THEN FailPass(r2.result, it2)
               ELSE IF full_details.err THEN FailPass("Goof", it2)
               ELSE CallSatisfy([it2 EXCEPT !.answers = full_details.val])

\* The Request::Tx arm (lines 192-233).
TxPass ==
    /\ pc = "loop"
    /\ Matches(request, "Tx")
    /\ LET needs_full == Take(request.pending, chunk_size)
           it0 == [NoIter EXCEPT !.phase = "Tx", !.drawn = needs_full]
       IN  \E fail_at \in 0..Len(needs_full) :
             LET p1 == SaveTxsPartition(cache, needs_full, db, fail_at) IN
             \E reply \in TxReplies(p1.need_fetch) :
               LET r1 == SaveTxsFetch(p1, db, reply, debug)
                   it1 == [it0 EXCEPT !.saves = <<SaveRecord(needs_full, cache, r1)>>,
                                      !.calls = CallsOf(r1)]
                   full_transactions == FullTransactions(r1.cache, needs_full)
               IN  IF r1.result # "ok" \/ full_transactions.err
                   THEN /\ cache' = r1.cache
                        /\ db' = r1.db
                        /\ last_db_op' = AfterLookups(last_db_op, r1)
                        /\ FailPass(IF r1.result # "ok" THEN r1.result ELSE "Goof", it1)
                   ELSE TxPassInputs(needs_full, full_transactions.val, r1, it1)
    /\ fetched' = fetched \cup Sent(iter'.calls)
    /\ UNCHANGED <<chunk_size, debug, txid_to_height, block_times, db0, commits,
                   fee_vars>>

\* `break batch_update`: the value the loop evaluates to.
BreakBatchDefault(req) == 0
BreakBatch(req) == req.batch

\* The Request::Finish arm and the commit (lines 234-239).
FinishDroppingCache ==
    /\ pc = "loop"
    /\ Matches(request, "Finish")
    /\ commits' = commits + 1
    /\ last_db_op' = "commit_batch"
    /\ iter' = EndPass([NoIter EXCEPT !.phase = "Finish"], FALSE, "ok")
    /\ cache' = Empty
    /\ \/ /\ db' = CommitBatch(db, BreakBatch(request))
          /\ pc' = "done"
          /\ err' = "none"
       \/ /\ db' = db
          /\ pc' = "error"
          /\ err' = "Database"
    /\ UNCHANGED <<request, chunk_size, debug, txid_to_height, block_times,
                   db0, fetched, fee_vars>>
Finish ==
    /\ pc = "loop"
    /\ Matches(request, "Finish")
    /\ commits' = commits + 1
    /\ last_db_op' = "commit_batch"
    /\ iter' = EndPass([NoIter EXCEPT !.phase = "Finish"], FALSE, "ok")
    /\ \/ /\ db' = CommitBatch(db, BreakBatch(request))
          /\ pc' = "done"
          /\ err' = "none"
       \/ /\ db' = db
          /\ pc' = "error"
          /\ err' = "Database"
    /\ UNCHANGED <<request, chunk_size, debug, txid_to_height, block_times, cache,
                   db0, fetched, fee_vars>>

Next == Start \/ ScriptPass \/ ConftimePass \/ TxPass \/ Finish

Spec == Init /\ [][Next]_vars

\* wallet_setup runs on one thread and blocks on each call: while a pass of
\* the loop can run, one does.
SpecLive == Init /\ [][Next]_vars /\ WF_vars(Next)

\* ------------------------------------------------------------ into_fee_rate
\* A key of the estimates table is a String, modelled as the sequence of its
\* characters: "", "0", "1", "3", "01", "03", "+1", "+3", "13", "-1", "+",
\* "x" and "1x".
KeyStrings ==
    {<<>>, <<"0">>, <<"1">>, <<"3">>, <<"0", "1">>, <<"0", "3">>, <<"+", "1">>,
     <<"+", "3">>, <<"1", "3">>, <<"-", "1">>, <<"+">>, <<"x">>, <<"1", "x">>}

DigitVal(c) == IF c = "0" THEN 0 ELSE IF c = "1" THEN 1 ELSE IF c = "3" THEN 3 ELSE 0 - 1

\* The value of a string of decimal digits after the prefix value acc.
RECURSIVE Digits(_, _)
Digits(str, acc) ==
    IF str = <<>> THEN [ok |-> TRUE, val |-> acc]
    ELSE IF DigitVal(Head(str)) < 0 THEN [ok |-> FALSE, val |-> 0]
    ELSE Digits(Tail(str), 10 * acc + DigitVal(Head(str)))

\* k.parse::<usize>(): an optional "+" and one or more decimal digits (no
\* key of KeyStrings overflows a usize).
ParseUsize(str) ==
    LET digits == IF str # <<>> /\ Head(str) = "+" THEN Tail(str) ELSE str IN
    IF digits = <<>> THEN [ok |-> FALSE, val |-> 0] ELSE Digits(digits, 0)

\* The f64 rates of the tables.
FeeVals == {2, 5}

\* `fee_val as f32`, with f32 scaled down to a significand of two bits: the
\* integers below 4 and the even ones from 4 to 8 are exact, an odd one
\* between them rounds to the neighbour whose significand is even.
AsF32(v) ==
    IF v < 4 \/ v % 2 = 0 THEN v ELSE IF (v + 1) % 4 = 0 THEN v + 1 ELSE v - 1

\* FeeRate::from_sat_per_vb.
FromSatPerVb(x) == [sat_per_vb |-> x]

\* The rate `unwrap_or` falls back to.
DefaultFeeVal == 1

\* The estimates tables: at most MaxKeys keys.
RECURSIVE KeySets(_)
KeySets(n) ==
    IF n = 0 THEN {{}}
    ELSE KeySets(n - 1) \cup {K \cup {k} : K \in KeySets(n - 1), k \in KeyStrings}
Tables == UNION {[K -> FeeVals] : K \in KeySets(MaxKeys)}

\* `pairs` after the filter_map, as the keys that parse.
Parsed(estimates) == {k \in DOMAIN estimates : ParseUsize(k).ok}

\* `pairs` after sort_unstable_by_key(Reverse(k)): the keys in an order of
\* descending parsed value; the HashMap's iteration order and the unstable
\* sort leave the order of keys of equal value open.
SortedPairsAscending(estimates) ==
    {s \in Orders(Parsed(estimates)) :
       \A i, j \in 1..Len(s) : i < j => ParseUsize(s[i]).val <= ParseUsize(s[j]).val}
SortedPairs(estimates) ==
    {s \in Orders(Parsed(estimates)) :
       \A i, j \in 1..Len(s) : i < j => ParseUsize(s[i]).val >= ParseUsize(s[j]).val}

\* find(|(k, _)| k <= &target) on the sorted pairs: the key found, if any.
RECURSIVE Find(_, _)
Find(pairs, target) ==
    IF pairs = <<>> THEN None
    ELSE IF ParseUsize(Head(pairs)).val <= target THEN Some(Head(pairs))
    ELSE Find(Tail(pairs), target)

\* fee_val for one order of the sorted pairs.
FeeVal(estimates, pairs, target) ==
    IF IsSome(Find(pairs, target)) THEN estimates[Unwrap(Find(pairs, target))]
    ELSE DefaultFeeVal

\* into_fee_rate: the results it can return (always Ok), one per order the
\* sort can leave the pairs in.
IntoFeeRate(target, estimates) ==
    {[key |-> Find(s, target),
      rate |-> FromSatPerVb(AsF32(FeeVal(estimates, s, target)))] :
       s \in SortedPairs(estimates)}

\* wallet_setup has not been called.
IdleSync ==
    /\ pc = "start"
    /\ err = "none"
    /\ request = Req("none", <<>>, 0)
    /\ chunk_size = 0
    /\ debug = FALSE
    /\ txid_to_height = Empty
    /\ block_times = Empty
    /\ cache = Empty
    /\ db = [raw_txs |-> {}, committed |-> <<>>]
    /\ db0 = db
    /\ commits = 0
    /\ last_db_op = "none"
    /\ iter = NoIter
    /\ fetched = {}

InitFee ==
    /\ IdleSync
    /\ fee_target \in 0..MaxTarget
    /\ fee_estimates \in Tables
    /\ fee_result = None

\* A call of into_fee_rate(fee_target, fee_estimates).
IntoFeeRateCall ==
    /\ fee_result = None
    /\ \E r \in IntoFeeRate(fee_target, fee_estimates) : fee_result' = Some(r)
    /\ UNCHANGED <<fee_target, fee_estimates, sync_vars>>

NextFee == IntoFeeRateCall

SpecFee == InitFee /\ [][NextFee]_vars

\* ================================================================ claims
\* A save_txs call record's txids: the ids requested, those cached before
\* the call (k of them), those of the rest the database holds (m of them).
SaveCached(sv) == Range(sv.txids) \cap sv.cached_before
SaveStored(sv) == (Range(sv.txids) \ sv.cached_before) \cap db.raw_txs
SaveRemaining(sv) == (Range(sv.txids) \ sv.cached_before) \ db.raw_txs
SaveDistinct(sv) == Cardinality(Range(sv.txids)) = Len(sv.txids)
Saves == {iter.saves[i] : i \in 1..Len(iter.saves)}

\* C1: a run of wallet_setup that fails before its request reaches Finish
\* (an Err returned by start, a backend call, get_raw_tx or satisfy, the
\* electrum_goof error, or a panic) has not called commit_batch and leaves
\* the database as it was when wallet_setup was called.
C1_FailureNeverCommits ==
    (pc \in {"error", "panic"} /\ request.phase # "Finish")
        => (commits = 0 /\ db = db0)

\* C1 witness: a Tx pass failed after save_txs read the database and
\* fetched from the backend.
C1_Witness ==
    /\ pc = "error"
    /\ iter.phase = "Tx"
    /\ \E sv \in Saves : sv.lookups # <<>> /\ sv.fetches # <<>>

\* C2: while the loop runs the database has not been committed to nor
\* changed; once the request is Finish, commit_batch is called exactly once,
\* it is the last database call, and what it commits is the BatchUpdate
\* that Finish carries.
C2_CommitOnceAtFinish ==
    /\ pc \in {"start", "loop"} =>
         (commits = 0 /\ db = db0 /\ last_db_op \in {"none", "read", "get_raw_tx"})
    /\ pc = "done" =>
         /\ request.phase = "Finish"
         /\ commits = 1
         /\ last_db_op = "commit_batch"
         /\ db.raw_txs = db0.raw_txs
         /\ db.committed = db0.committed \o <<request.batch>>
    /\ (pc = "error" /\ request.phase = "Finish") =>
         (commits = 1 /\ last_db_op = "commit_batch" /\ db = db0)

\* C2 witness: a run that read the database in a Tx pass and then committed.
C2_Witness ==
    /\ pc = "done"
    /\ commits = 1
    /\ cache # Empty
    /\ db.committed # <<>>

\* C3: in every Script, Conftime and Tx pass the items drawn from the
\* request's work sequence, and the answers given to satisfy for them, are
\* at most chunk_size.
C3_ChunkBound ==
    iter.phase \in {"Script", "Conftime", "Tx"} =>
        /\ Len(iter.drawn) <= chunk_size
        /\ Len(iter.answers) <= Len(iter.drawn)

\* C3 witness: a pass that resolved a full chunk and left work pending.
C3_Witness ==
    /\ chunk_size >= 1
    /\ iter.phase \in {"Conftime", "Tx"}
    /\ iter.satisfied
    /\ Len(iter.answers) = chunk_size
    /\ request.phase = iter.phase
    /\ request.pending # <<>>

\* C4 (the claim as stated): every step leaves each entry of txid_to_height
\* in place with the height it had.
C4_HeightMapOnlyGrows ==
    [][\A t \in DOMAIN txid_to_height :
          /\ t \in DOMAIN txid_to_height'
          /\ txid_to_height'[t] = txid_to_height[t]]_vars

\* C5: a save_txs call over n distinct txids, k of them cached and m others
\* in the database, whose database lookups all answered, sent no batch to
\* batch_transaction_get when n - k - m = 0 and otherwise exactly one batch,
\* holding exactly the n - k - m remaining ids.
C5_FetchesExactlyTheRest ==
    \A sv \in Saves :
        (SaveDistinct(sv) /\ sv.result # "Database") =>
            LET n == Len(sv.txids)
                k == Cardinality(SaveCached(sv))
                m == Cardinality(SaveStored(sv))
            IN  IF n - k - m = 0 THEN sv.fetches = <<>>
                ELSE /\ Len(sv.fetches) = 1
                     /\ Len(sv.fetches[1]) = n - k - m
                     /\ Range(sv.fetches[1]) = SaveRemaining(sv)

\* C5 witness: one pass with a save_txs call that found an id in the
\* database and fetched another, and a save_txs call that skipped a cached
\* id and fetched another.
C5_Witness ==
    /\ \E sv \in Saves :
         /\ SaveDistinct(sv) /\ sv.result = "ok"
         /\ SaveStored(sv) # {} /\ SaveRemaining(sv) # {} /\ Len(sv.fetches) = 1
    /\ \E sv \in Saves :
         /\ SaveDistinct(sv) /\ sv.result = "ok"
         /\ SaveCached(sv) # {} /\ SaveRemaining(sv) # {} /\ Len(sv.fetches) = 1

\* The positions of a save_txs call's reply whose transaction has another
\* txid than the one requested there.
Mismatched(sv) ==
    IF sv.fetches = <<>> THEN {}
    ELSE {i \in 1..Min(Len(sv.reply), Len(sv.fetches[1])) :
            Txid(sv.reply[i]) # sv.fetches[1][i]}

\* C6 (the claim as stated): a save_txs call whose reply holds a transaction
\* with another txid than the one requested at its position fails with the
\* inconsistency error and adds no cache entry for that transaction.
C6_IdentityChecked ==
    \A sv \in Saves :
        Mismatched(sv) # {} =>
            /\ sv.result = "Goof"
            /\ \A t \in DOMAIN cache : Txid(cache[t]) = t
            /\ \A i \in Mismatched(sv) :
                 Txid(sv.reply[i]) \notin sv.cached_after \ sv.cached_before

\* A pass whose batch_block_header reply or a batch_transaction_get reply
\* held fewer results than were requested.
ShortHeaderReply ==
    /\ iter.phase = "Conftime"
    /\ iter.outcome # "Electrum"
    /\ Len(iter.header_reply) < Len(iter.header_req)
ShortTxReply ==
    \E sv \in Saves :
        /\ sv.fetches # <<>>
        /\ sv.result # "Electrum"
        /\ Len(sv.reply) < Len(sv.fetches[1])

\* C7 (the claim as stated): a pass that received fewer headers or fewer
\* transactions than it requested ends the run with the electrum_goof error,
\* without a panic and without calling satisfy.
C7_ShortReplyIsGoof ==
    (ShortHeaderReply \/ ShortTxReply) =>
        (pc = "error" /\ err = "Goof" /\ ~iter.satisfied)

\* The keys of the table that parse to an integer <= the target.
FeeCandidates == {k \in Parsed(fee_estimates) : ParseUsize(k).val <= fee_target}

\* C8: into_fee_rate returns the default rate 1.0 when no key parses to an
\* integer <= target, and otherwise the rate of a key whose integer is the
\* largest one <= target; keys that do not parse and keys above the target
\* are never selected.
C8_LargestKeyNotAboveTarget ==
    IsSome(fee_result) =>
        LET r == Unwrap(fee_result) IN
        IF FeeCandidates = {}
        THEN r.key = None /\ r.rate = FromSatPerVb(1)
        ELSE /\ IsSome(r.key)
             /\ Unwrap(r.key) \in FeeCandidates
             /\ \A k \in FeeCandidates :
                  ParseUsize(k).val <= ParseUsize(Unwrap(r.key)).val
             /\ r.rate = FromSatPerVb(AsF32(fee_estimates[Unwrap(r.key)]))

\* C8 witness: a table with a key that does not parse, a key above the
\* target and two keys below it, where the larger of the two was selected.
C8_Witness ==
    /\ DOMAIN fee_estimates = {<<"x">>, <<"1", "3">>, <<"1">>, <<"3">>}
    /\ fee_target = 4
    /\ fee_estimates[<<"1">>] # fee_estimates[<<"3">>]
    /\ IsSome(fee_result)
    /\ Unwrap(fee_result).key = Some(<<"3">>)

\* C9: every step keeps each cache entry with its transaction, and every
\* save_txs call of a pass neither looked up in the database nor fetched a
\* txid that was a cache key when the call began, nor looked up again an id
\* it had just cached from the database.
C9_CacheAppendOnly ==
    [][/\ \A t \in DOMAIN cache : t \in DOMAIN cache' /\ cache'[t] = cache[t]
       /\ \A i \in 1..Len(iter'.saves) :
            LET sv == iter'.saves[i] IN
            /\ sv.cached_before \subseteq sv.cached_after
            /\ Range(sv.lookups) \cap sv.cached_before = {}
            /\ \A j \in 1..Len(sv.fetches) :
                 Range(sv.fetches[j]) \cap sv.cached_before = {}
            /\ \A a, b \in 1..Len(sv.lookups) :
                 (a < b /\ sv.lookups[a] = sv.lookups[b])
                     => sv.lookups[a] \notin db.raw_txs]_vars

\* C9 witness: a save_txs call was given a txid that was already cached, and
\* fetched another.
C9_Witness ==
    \E sv \in Saves :
        /\ SaveCached(sv) # {}
        /\ sv.fetches # <<>>
        /\ sv.result = "ok"

\* The heights a Conftime pass inserted into block_times.
InsertedHeights(it) ==
    {it.header_req[i] : i \in 1..Min(Len(it.header_req), Len(it.header_reply))}

\* C10: every step keeps each block_times entry with its timestamp, and
\* every height a Conftime pass inserts was absent from block_times when the
\* pass began.
C10_BlockTimesAppendOnly ==
    [][/\ \A h \in DOMAIN block_times :
            h \in DOMAIN block_times' /\ block_times'[h] = block_times[h]
       /\ iter'.phase = "Conftime" =>
            InsertedHeights(iter') \cap DOMAIN block_times = {}]_vars

\* C10 witness: a Conftime pass inserted a height while block_times already
\* held another.
C10_Witness ==
    /\ iter.phase = "Conftime"
    /\ InsertedHeights(iter) # {}
    /\ DOMAIN block_times \ InsertedHeights(iter) # {}

\* wallet_setup has returned (Ok or Err) or unwound.
Returned == pc \in {"done", "error", "panic"}

\* C11 (the claim as stated): every run of wallet_setup eventually returns,
\* having committed or with an error, for every chunk_size including 0.
C11_SyncEnds == <>Returned

\* What the loop itself fixes of the order of phases: every pass handles
\* the phase of the current request, which is what start or the previous
\* pass's satisfy returned, and the request changes only when a pass's
\* satisfy returns Ok. Which phase satisfy returns is script_sync's.
HandlesReturnedRequest ==
    [][/\ iter' # iter => iter'.phase = request.phase
       /\ (pc = "loop" /\ request' # request) =>
            (iter'.satisfied /\ pc' = "loop")]_vars

\* The save_txs calls of the last pass that had a txid to fetch: one that
\* was neither cached nor, when looked up, found in the database.
SavesThatFetch ==
    {i \in 1..Len(iter.saves) :
       /\ iter.saves[i].result # "Database"
       /\ \E j \in 1..Len(iter.saves[i].lookups) :
            iter.saves[i].lookups[j] \notin db.raw_txs}

SentInOrder(it) == Flatten([i \in 1..Len(it.calls) |-> it.calls[i].args])

\* C14 (the claim as stated): no Tx pass sends to batch_transaction_get a
\* txid twice, in one batch or in its two batches, nor a txid that an
\* earlier pass of the session sent.
C14_NoTxidFetchedTwice ==
    [][iter'.phase = "Tx" /\ iter' # iter =>
          /\ \A a, b \in 1..Len(SentInOrder(iter')) :
                a # b => SentInOrder(iter')[a] # SentInOrder(iter')[b]
          /\ Range(SentInOrder(iter')) \cap fetched = {}]_vars

\* The positions of a sequence of history entries that report txid t with a
\* height > 0, and the largest of a non-empty set of positions.
ConfirmedAt(entries, t) ==
    {i \in 1..Len(entries) : entries[i].tx_hash = t /\ entries[i].height > 0}
Last(positions) == CHOOSE i \in positions : \A j \in positions : j <= i

\* C15: a Script pass gives satisfy, for every history entry received, the
\* pair (txid, None) when the reported height is <= 0 and (txid,
\* Some(height)) when it is > 0; it leaves txid_to_height as it was for a
\* txid that no entry reports with a height > 0, and sets it to the height
\* of the last entry that does otherwise; every value of txid_to_height is
\* > 0.
C15_UnconfirmedHaveNoHeight ==
    [][/\ \A t \in DOMAIN txid_to_height' : txid_to_height'[t] > 0
       /\ (iter'.phase = "Script" /\ iter' # iter /\ iter'.satisfied) =>
            LET reply == iter'.script_reply
                entries == Flatten(reply)
            IN  /\ Len(iter'.answers) = Len(reply)
                /\ \A i \in 1..Len(reply) :
                     /\ Len(iter'.answers[i]) = Len(reply[i])
                     /\ \A j \in 1..Len(reply[i]) :
                          /\ iter'.answers[i][j].txid = reply[i][j].tx_hash
                          /\ iter'.answers[i][j].height =
                               IF reply[i][j].height <= 0 THEN None
                               ELSE Some(reply[i][j].height)
                /\ \A t \in TxIds :
                     IF ConfirmedAt(entries, t) = {}
                     THEN /\ t \in DOMAIN txid_to_height' <=> t \in DOMAIN txid_to_height
                          /\ t \in DOMAIN txid_to_height =>
                               txid_to_height'[t] = txid_to_height[t]
                     ELSE /\ t \in DOMAIN txid_to_height'
                          /\ txid_to_height'[t] =
                               entries[Last(ConfirmedAt(entries, t))].height]_vars

\* C15 witness: a Script pass received an entry with a height <= 0 and an
\* entry with a height > 0, and gave its answers to satisfy.
C15_Witness ==
    /\ iter.phase = "Script" /\ iter.satisfied
    /\ \E i, j \in 1..Len(iter.script_reply) :
         /\ iter.script_reply[i] # <<>> /\ iter.script_reply[j] # <<>>
         /\ iter.script_reply[i][1].height <= 0
         /\ iter.script_reply[j][1].height > 0
         /\ iter.script_reply[j][1].tx_hash \in DOMAIN txid_to_height

\* C16: the heights a Conftime pass sends to batch_block_header are
\* txid_to_height values of pending txids, are not in block_times when the
\* pass begins, hold no height twice and are at most chunk_size.
C16_HeaderRequestFiltered ==
    [][(iter'.phase = "Conftime" /\ iter' # iter) =>
          LET sent == iter'.header_req IN
          /\ iter'.calls = <<Call("batch_block_header", sent)>>
          /\ Len(sent) <= chunk_size
          /\ \A a, b \in 1..Len(sent) : a # b => sent[a] # sent[b]
          /\ \A a \in 1..Len(sent) :
               /\ sent[a] \notin DOMAIN block_times
               /\ \E i \in 1..Len(request.pending) :
                    /\ request.pending[i] \in DOMAIN txid_to_height
                    /\ txid_to_height[request.pending[i]] = sent[a]]_vars

\* C16 witness: a Conftime pass skipped a pending txid without a height to
\* fetch, and sent chunk_size heights.
C16_Witness ==
    /\ iter.phase = "Conftime"
    /\ chunk_size >= 1
    /\ Len(iter.header_req) = chunk_size
    /\ iter.scanned > Len(iter.header_req)

\* A Conftime pass whose batch_block_header call returned one header for
\* each height requested.
FullHeaderReply ==
    /\ iter.phase = "Conftime"
    /\ iter.outcome # "Electrum"
    /\ Len(iter.header_reply) = Len(iter.header_req)

\* C17: with chunk_size >= 1, a Conftime pass that received one header for
\* each requested height, in request order, does not fail with
\* electrum_goof: block_times holds for each requested height the time of
\* the header at its position, and every drawn txid that has a
\* txid_to_height entry has a block_times entry for its height.
C17_FullHeadersNeverGoof ==
    (FullHeaderReply /\ chunk_size >= 1) =>
        /\ iter.outcome # "Goof"
        /\ ~(pc = "error" /\ err = "Goof")
        /\ \A i \in 1..Len(iter.header_req) :
             /\ iter.header_req[i] \in DOMAIN block_times
             /\ block_times[iter.header_req[i]] = iter.header_reply[i]
        /\ \A i \in 1..Len(iter.drawn) :
             iter.drawn[i] \in DOMAIN txid_to_height =>
                 txid_to_height[iter.drawn[i]] \in DOMAIN block_times

\* C17 witness: a Conftime pass fetched the header of a drawn txid's height
\* while a pending txid beyond the chunk was left for the next pass.
C17_Witness ==
    /\ FullHeaderReply
    /\ chunk_size >= 1
    /\ iter.satisfied
    /\ request.phase = "Conftime" /\ request.pending # <<>>
    /\ \E i \in 1..Len(iter.drawn) :
         /\ iter.drawn[i] \in DOMAIN txid_to_height
         /\ txid_to_height[iter.drawn[i]] \in InsertedHeights(iter)

\* C18: a Conftime pass that called satisfy gave it one answer for each
\* drawn txid, in draw order: None when the txid has no txid_to_height
\* entry, and otherwise the BlockTime of its height and of the block_times
\* timestamp of that height.
C18_ConftimeAnswers ==
    (iter.phase = "Conftime" /\ iter.satisfied) =>
        /\ Len(iter.answers) = Len(iter.drawn)
        /\ \A i \in 1..Len(iter.drawn) :
             LET txid == iter.drawn[i] IN
             IF txid \notin DOMAIN txid_to_height THEN iter.answers[i] = None
             ELSE /\ txid_to_height[txid] \in DOMAIN block_times
                  /\ iter.answers[i] =
                       Some([height |-> txid_to_height[txid],
                             timestamp |-> block_times[txid_to_height[txid]]])

\* C18 witness: a Conftime pass answered None for a txid without a height
\* and a BlockTime for a txid with one.
C18_Witness ==
    /\ iter.phase = "Conftime" /\ iter.satisfied
    /\ \E i, j \in 1..Len(iter.answers) :
         iter.answers[i] = None /\ IsSome(iter.answers[j])

\* C19: a Tx pass that called satisfy gave it one (prev_outputs, tx) pair
\* for each drawn txid, in draw order: tx is the cached transaction of that
\* txid, prev_outputs has one element per input of tx, None for an input
\* whose previous output is null and otherwise output number vout of the
\* cached transaction of the input's previous txid.
C19_TxAnswers ==
    (iter.phase = "Tx" /\ iter.satisfied) =>
        /\ Len(iter.answers) = Len(iter.drawn)
        /\ \A i \in 1..Len(iter.drawn) :
             /\ iter.drawn[i] \in DOMAIN cache
             /\ LET tx == cache[iter.drawn[i]]
                    prev_outputs == iter.answers[i].prev_outputs
                IN  /\ Txid(tx) = iter.drawn[i]
                    /\ iter.answers[i].tx = tx
                    /\ Len(prev_outputs) = Len(tx.input)
                    /\ \A j \in 1..Len(tx.input) :
                         LET op == tx.input[j].previous_output IN
                         IF IsNull(op) THEN prev_outputs[j] = None
                         ELSE /\ op.txid \in DOMAIN cache
                              /\ prev_outputs[j] = Some(cache[op.txid].output[op.vout + 1])

\* C19 witness: a Tx pass answered with a transaction whose input has a
\* null previous output and with a transaction that spends output 1 of
\* another.
C19_Witness ==
    /\ iter.phase = "Tx" /\ iter.satisfied
    /\ \E i, j \in 1..Len(iter.answers) :
         /\ \E a \in 1..Len(iter.answers[i].prev_outputs) :
              iter.answers[i].prev_outputs[a] = None
         /\ \E b \in 1..Len(iter.answers[j].tx.input) :
              /\ iter.answers[j].tx.input[b].previous_output.vout = 1
              /\ IsSome(iter.answers[j].prev_outputs[b])

\* The save_txs calls of the last pass all returned Ok.
CacheFilled ==
    /\ iter.saves # <<>>
    /\ \A i \in 1..Len(iter.saves) : iter.saves[i].result = "ok"

\* A drawn txid of the last pass is not cached, or a cached one has an
\* input whose previous output is not null and whose previous transaction
\* is not cached.
DrawnMissing == \E i \in 1..Len(iter.drawn) : iter.drawn[i] \notin DOMAIN cache
InputMissing ==
    \E i \in 1..Len(iter.drawn) :
        /\ iter.drawn[i] \in DOMAIN cache
        /\ \E j \in 1..Len(cache[iter.drawn[i]].input) :
             LET op == cache[iter.drawn[i]].input[j].previous_output IN
             ~IsNull(op) /\ op.txid \notin DOMAIN cache

\* C20: a Tx pass whose save_txs calls returned Ok and that left a drawn
\* txid, or the previous transaction of an input that is not null, out of
\* the cache, ends the run with the electrum_goof error, without calling
\* satisfy and without a commit.
C20_MissingTxIsGoof ==
    (iter.phase = "Tx" /\ CacheFilled /\ (DrawnMissing \/ InputMissing)) =>
        /\ pc = "error" /\ err = "Goof"
        /\ iter.outcome = "Goof"
        /\ ~iter.satisfied
        /\ commits = 0 /\ db = db0

\* C20 witness: both save_txs calls of a Tx pass returned Ok, the drawn
\* txids are cached and a previous transaction is not.
C20_Witness ==
    /\ iter.phase = "Tx"
    /\ CacheFilled /\ Len(iter.saves) = 2
    /\ ~DrawnMissing /\ InputMissing
    /\ pc = "error"

\* C21 (the claim as stated): every batched call a pass makes on the
\* Electrum client (batch_script_get_history, batch_block_header, each
\* batch_transaction_get) sends at most chunk_size items.
C21_EveryBatchWithinChunk ==
    \A i \in 1..Len(iter.calls) : Len(iter.calls[i].args) <= chunk_size

\* The requested heights of the last Conftime pass that its reply left
\* without a header.
Unanswered ==
    {iter.header_req[i] : i \in (Len(iter.header_reply) + 1)..Len(iter.header_req)}

\* C22 (the claim as stated): a Conftime pass whose batch_block_header
\* reply held fewer headers than heights requested fails with the
\* electrum_goof error and does not call satisfy, whichever pending txids
\* the heights left without a header belong to.
C22_HeaderShortfallNeverAbsorbed ==
    (ShortHeaderReply /\ Unanswered # {}) =>
        /\ iter.outcome = "Goof"
        /\ ~iter.satisfied
        /\ pc = "error" /\ err = "Goof"

\* C23: a step changes txid_to_height only when it is a pass of the Script
\* phase, block_times only when it is a pass of the Conftime phase and the
\* cache only when it is a pass of the Tx phase; so each pass leaves the
\* other two as they were, and start, the Finish arm and commit_batch
\* leave all three as they were.
C23_PhaseFrames ==
    [][/\ txid_to_height' # txid_to_height =>
            (pc = "loop" /\ request.phase = "Script" /\ iter'.phase = "Script")
       /\ block_times' # block_times =>
            (pc = "loop" /\ request.phase = "Conftime" /\ iter'.phase = "Conftime")
       /\ cache' # cache =>
            (pc = "loop" /\ request.phase = "Tx" /\ iter'.phase = "Tx")
       /\ (pc = "loop" /\ request.phase = "Finish") =>
            (txid_to_height' = txid_to_height /\ block_times' = block_times
             /\ cache' = cache)]_vars

\* C23 witness: the run committed after its Script, Conftime and Tx passes
\* filled txid_to_height, block_times and the cache.
C23_Witness ==
    /\ pc = "done"
    /\ iter.phase = "Finish"
    /\ txid_to_height # Empty
    /\ block_times # Empty
    /\ cache # Empty

\* C24 (the claim as stated): the rate into_fee_rate returned for a target
\* and a table is the only rate it can return for them, also when two keys
\* of the table parse to the same integer and carry different rates.
C24_FeeRateDeterministic ==
    IsSome(fee_result) =>
        \A r \in IntoFeeRate(fee_target, fee_estimates) :
            r.rate = Unwrap(fee_result).rate
====
